---- MODULE Spec2Model ----
(***************************************************************************)
(* Model of src/data_processor.py: process_csv, the pipeline that reads a  *)
(* balance log, normalises it, builds the 15-minute grid between the       *)
(* observed minimum and maximum, forward-fills the missing instants and    *)
(* writes the result next to the input file.                               *)
(*                                                                         *)
(* Instants are minutes after an arbitrary base instant.  A CSV field is a *)
(* record [kind, val]: the text of the field classified by what pandas     *)
(* does with it (kind) and the number it denotes when it denotes one (val).*)
(***************************************************************************)
EXTENDS Integers, Sequences, FiniteSets, TLC

\* ---------------------------------------------------------------- bounds
\* Longest input file, in data rows.
MaxRows == 3
\* Most rows of one input file that are not plain data rows (empty or
\* non-matching timestamp, sentinel row, non-numeric balance).
MaxOddRows == 1
\* The instants that occur in input files: on and off the 15-minute grid.
Times == {0, 10, 15, 40}

\* ------------------------------------------------------- program constants
\* freq='15T': the grid spacing in minutes.
GridMinutes == 15
\* pandas' missing timestamp (NaT) and missing float (NaN / None).
NaT == -1
NaN == -1

\* Column names: '時間' and '残高' in the source.
TimeCol == "jikan"
BalanceCol == "zandaka"

\* ------------------------------------------------------------ CSV fields
TimeText(t) == [kind |-> "time", val |-> t]     \* "2024.01.01 00:15:00"
EmptyText == [kind |-> "nan", val |-> 0]         \* empty field, read as NaN
WordText == [kind |-> "word", val |-> 0]         \* any other text
SentinelText == [kind |-> "end of test", val |-> 0]
NumText(v) == [kind |-> "num", val |-> v]        \* "1000" / "1000.0"
SpacedText(v) == [kind |-> "spaced", val |-> v]  \* "1 050"

NoFile == [exists |-> FALSE, columns |-> <<>>, rows |-> <<>>]
CsvFile(cols, rows) == [exists |-> TRUE, columns |-> cols, rows |-> rows]

\* ------------------------------------------------------ sequence helpers
RECURSIVE Pick(_, _, _)
Pick(s, keep, i) ==
    IF i > Len(s) THEN <<>>
    ELSE (IF i \in keep THEN <<s[i]>> ELSE <<>>) \o Pick(s, keep, i + 1)

Range(s) == {s[i] : i \in 1..Len(s)}
SetMin(S) == CHOOSE x \in S : \A y \in S : x <= y
SetMax(S) == CHOOSE x \in S : \A y \in S : x >= y

\* ------------------------------------------------------- pipeline stages
\* df[['時間', '残高']] raises KeyError unless both columns exist.
HasColumns(f) == TimeCol \in Range(f.columns) /\ BalanceCol \in Range(f.columns)

ColumnIndex(f, name) == CHOOSE i \in 1..Len(f.columns) : f.columns[i] = name

\* df = df[['時間', '残高']].copy(); df.columns = ['DateTime', 'Balance']
SelectColumns(f) ==
    [i \in 1..Len(f.rows) |->
        [DateTime |-> f.rows[i][ColumnIndex(f, TimeCol)],
         Balance |-> f.rows[i][ColumnIndex(f, BalanceCol)]]]

\* .astype(str).str.replace(' ', '').astype(float) on one field:
\* a number with or without spaces converts, an empty field becomes 'nan'
\* and converts to NaN, any other text raises ValueError.
FloatOk(txt) == txt.kind \in {"num", "spaced", "nan"}
ToFloat(txt) == IF txt.kind = "nan" THEN NaN ELSE txt.val

\* pd.to_datetime(..., format='%Y.%m.%d %H:%M:%S') on one field: a matching
\* text parses, NaN becomes NaT, any other text raises ValueError.
DateTimeOk(txt) == txt.kind \in {"time", "nan"}
to_datetime(txt) == IF txt.kind = "nan" THEN NaT ELSE txt.val

\* The bug keep='last': the last row of each timestamp survives.
drop_duplicates_last(s) ==
    Pick(s, {i \in 1..Len(s) : \A j \in (i + 1)..Len(s) : s[j].DateTime # s[i].DateTime}, 1)

\* drop_duplicates(subset=['DateTime'], keep='first')
drop_duplicates(s) ==
    Pick(s, {i \in 1..Len(s) : \A j \in 1..(i - 1) : s[j].DateTime # s[i].DateTime}, 1)

\* dropna(subset=['DateTime'])
dropna(s) == Pick(s, {i \in 1..Len(s) : s[i].DateTime # NaT}, 1)

\* The bug of calling sort_values and discarding what it returns.
sort_values_discarded(s) == s

\* sort_values('DateTime'), ascending; ties keep their order.
RECURSIVE Insert(_, _)
Insert(r, s) ==
    IF s = <<>> THEN <<r>>
    ELSE IF s[Len(s)].DateTime <= r.DateTime THEN Append(s, r)
    ELSE Append(Insert(r, SubSeq(s, 1, Len(s) - 1)), s[Len(s)])

RECURSIVE sort_values(_)
sort_values(s) ==
    IF s = <<>> THEN <<>>
    ELSE Insert(s[Len(s)], sort_values(SubSeq(s, 1, Len(s) - 1)))

\* df['DateTime'].min() / .max(): NaT on an empty frame.
ColMin(s) == IF s = <<>> THEN NaT ELSE SetMin({s[i].DateTime : i \in 1..Len(s)})
ColMax(s) == IF s = <<>> THEN NaT ELSE SetMax({s[i].DateTime : i \in 1..Len(s)})

\* pd.date_range(start, end, freq='15T'): start + 15min*k while <= end.
date_range(start, end) ==
    [k \in 1..((end - start) \div GridMinutes + 1) |-> start + GridMinutes * (k - 1)]

\* full_date_range.difference(df['DateTime'])
difference(idx, s) ==
    Pick(idx, {i \in 1..Len(idx) : \A j \in 1..Len(s) : s[j].DateTime # idx[i]}, 1)

\* pd.DataFrame({'DateTime': missing_dates, 'Balance': None})
missing_data(dates) == [i \in 1..Len(dates) |-> [DateTime |-> dates[i], Balance |-> NaN]]

\* The bug method='bfill': scan backwards carrying the next known value.
RECURSIVE BackFrom(_, _)
BackFrom(s, next) ==
    IF s = <<>> THEN <<>>
    ELSE LET r == s[Len(s)]
             v == IF r.Balance = NaN THEN next ELSE r.Balance
         IN  Append(BackFrom(SubSeq(s, 1, Len(s) - 1), v), [r EXCEPT !.Balance = v])

bfill(s) == BackFrom(s, NaN)

\* fillna(method='ffill'): scan in row order carrying the last known value.
RECURSIVE FillFrom(_, _)
FillFrom(s, last) ==
    IF s = <<>> THEN <<>>
    ELSE LET v == IF Head(s).Balance = NaN THEN last ELSE Head(s).Balance
         IN  <<[Head(s) EXCEPT !.Balance = v]>> \o FillFrom(Tail(s), v)

ffill(s) == FillFrom(s, NaN)

\* .dt.strftime('%Y.%m.%d %H:%M:%S') on the DateTime column.
strftime(s) == [i \in 1..Len(s) |-> [s[i] EXCEPT !.DateTime = TimeText(s[i].DateTime)]]

\* to_csv(index=False): header DateTime,Balance; a float is written as a
\* plain number, NaN as an empty field.
FloatText(b) == IF b = NaN THEN EmptyText ELSE NumText(b)
to_csv(s) ==
    CsvFile(<<"DateTime", "Balance">>,
            [i \in 1..Len(s) |-> <<s[i].DateTime, FloatText(s[i].Balance)>>])

\* get_output_path: the stem gains one "_BD"; a path is the number of
\* "_BD" suffixes after the stem of the original input.
get_output_path(p) == p + 1

\* ------------------------------------------------------------ input files
PlainRows == {<<TimeText(t), b>> : t \in Times, b \in {NumText(1), SpacedText(2), EmptyText}}
OddRows ==
    {<<x, b>> : x \in {EmptyText, WordText, SentinelText},
                b \in {NumText(1), SpacedText(2), EmptyText}}
    \cup {<<TimeText(t), WordText>> : t \in Times}

RowSeqs ==
    {rows \in UNION {[1..n -> PlainRows \cup OddRows] : n \in 0..MaxRows} :
        Cardinality({i \in 1..Len(rows) : rows[i] \in OddRows}) <= MaxOddRows}

InputFiles ==
    {NoFile}
    \cup {CsvFile(<<TimeCol>>, rows) : rows \in {<<>>, << <<TimeText(0)>> >>}}
    \cup {CsvFile(<<TimeCol, BalanceCol>>, rows) : rows \in RowSeqs}

\* ------------------------------------------------------------------ state
VARIABLES
    disk,             \* path -> file: the input file and the files written
    file_path,        \* argument of the running process_csv call
    pc,               \* position of the call
    df,               \* local df
    full_date_range,  \* local full_date_range
    missing_dates,    \* local missing_dates
    result_df,        \* local result_df
    exc,              \* exception being handled, "" when none
    ret,              \* what the call returned
    nwrites,          \* to_csv calls of this call that wrote the output file
    stages,           \* stages this call has completed, in order
    prev              \* what the previous call returned

vars == <<disk, file_path, pc, df, full_date_range, missing_dates, result_df,
          exc, ret, nwrites, stages, prev>>

Pending == [kind |-> "pending", rows |-> <<>>]
None == [kind |-> "None", rows |-> <<>>]
DataFrame(rows) == [kind |-> "DataFrame", rows |-> rows]

Paths == 0..2
locals == <<df, full_date_range, missing_dates, result_df>>

Init ==
    /\ \E f \in InputFiles : disk = [p \in Paths |-> IF p = 0 THEN f ELSE NoFile]
    /\ file_path = 0
    /\ pc = "read_csv"
    /\ df = <<>>
    /\ full_date_range = <<>>
    /\ missing_dates = <<>>
    /\ result_df = <<>>
    /\ exc = ""
    /\ ret = Pending
    /\ nwrites = 0
    /\ stages = <<>>
    /\ prev = Pending

\* An exception raised inside the try block: control moves to the handler.
Raise(e) ==
    /\ pc' = "except"
    /\ exc' = e
    /\ UNCHANGED <<disk, file_path, df, full_date_range, missing_dates, result_df,
                   ret, nwrites, stages, prev>>

Step(next, name) ==
    /\ pc' = next
    /\ stages' = Append(stages, name)
    /\ UNCHANGED <<file_path, exc, ret, prev>>

\* df = pd.read_csv(file_path)
ReadCsv ==
    /\ pc = "read_csv"
    /\ IF disk[file_path].exists
       THEN /\ df' = disk[file_path]
            /\ Step("select", "load")
            /\ UNCHANGED <<disk, nwrites, full_date_range, missing_dates, result_df>>
       ELSE Raise("FileNotFoundError")

\* df = df[['時間', '残高']].copy(); df.columns = ['DateTime', 'Balance']
SelectStage ==
    /\ pc = "select"
    /\ IF HasColumns(df)
       THEN /\ df' = SelectColumns(df)
            /\ Step("balance", "select")
            /\ UNCHANGED <<disk, nwrites, full_date_range, missing_dates, result_df>>
       ELSE Raise("KeyError")

\* df['Balance'] = df['Balance'].astype(str).str.replace(' ', '').astype(float)
CleanBalance ==
    /\ pc = "balance"
    /\ IF \A i \in 1..Len(df) : FloatOk(df[i].Balance)
       THEN /\ df' = [i \in 1..Len(df) |-> [df[i] EXCEPT !.Balance = ToFloat(@)]]
            /\ Step("datetime", "balance")
            /\ UNCHANGED <<disk, nwrites, full_date_range, missing_dates, result_df>>
       ELSE Raise("ValueError")

\* df['DateTime'] = pd.to_datetime(df['DateTime'], format='%Y.%m.%d %H:%M:%S')
ParseDateTime ==
    /\ pc = "datetime"
    /\ IF \A i \in 1..Len(df) : DateTimeOk(df[i].DateTime)
       THEN /\ df' = [i \in 1..Len(df) |-> [df[i] EXCEPT !.DateTime = to_datetime(@)]]
            /\ Step("dedup", "datetime")
            /\ UNCHANGED <<disk, nwrites, full_date_range, missing_dates, result_df>>
       ELSE Raise("ValueError")

\* The bug of saving the intermediate frame once it is deduplicated.
DropDuplicatesAndSave ==
    /\ pc = "dedup"
    /\ df' = dropna(drop_duplicates(df))
    /\ disk' = [disk EXCEPT ![get_output_path(file_path)] = to_csv(strftime(df'))]
    /\ nwrites' = nwrites + 1
    /\ Step("sort", "dedup")
    /\ UNCHANGED <<full_date_range, missing_dates, result_df>>

\* df = df.drop_duplicates(subset=['DateTime']); df = df.dropna(subset=['DateTime'])
DropDuplicates ==
    /\ pc = "dedup"
    /\ df' = dropna(drop_duplicates(df))
    /\ Step("sort", "dedup")
    /\ UNCHANGED <<disk, nwrites, full_date_range, missing_dates, result_df>>

\* df = df.sort_values('DateTime')
SortValues ==
    /\ pc = "sort"
    /\ df' = sort_values(df)
    /\ Step("grid", "sort")
    /\ UNCHANGED <<disk, nwrites, full_date_range, missing_dates, result_df>>

\* full_date_range = pd.date_range(start=min, end=max, freq='15T');
\* raises ValueError when min and max are NaT (empty frame).
BuildGrid ==
    /\ pc = "grid"
    /\ IF ColMin(df) # NaT /\ ColMax(df) # NaT
       THEN /\ full_date_range' = date_range(ColMin(df), ColMax(df))
            /\ Step("missing", "grid")
            /\ UNCHANGED <<disk, nwrites, df, missing_dates, result_df>>
       ELSE Raise("ValueError")

\* missing_dates = full_date_range.difference(df['DateTime'])
FindMissing ==
    /\ pc = "missing"
    /\ missing_dates' = difference(full_date_range, df)
    /\ Step("fill", "missing")
    /\ UNCHANGED <<disk, nwrites, df, full_date_range, result_df>>

\* result_df = pd.concat([df, missing_data]); sort_values; fillna(method='ffill')
ConcatFill ==
    /\ pc = "fill"
    /\ result_df' = ffill(sort_values(df \o missing_data(missing_dates)))
    /\ Step("final_dedup", "fill")
    /\ UNCHANGED <<disk, nwrites, df, full_date_range, missing_dates>>

\* reset_index; result_df.drop_duplicates(subset=['DateTime'], keep='first')
FinalDedup ==
    /\ pc = "final_dedup"
    /\ result_df' = drop_duplicates(result_df)
    /\ Step("format", "final_dedup")
    /\ UNCHANGED <<disk, nwrites, df, full_date_range, missing_dates>>

\* result_df['DateTime'] = result_df['DateTime'].dt.strftime(...)
FormatDateTime ==
    /\ pc = "format"
    /\ result_df' = strftime(result_df)
    /\ Step("save", "format")
    /\ UNCHANGED <<disk, nwrites, df, full_date_range, missing_dates>>

\* result_df.to_csv(output_path, index=False, encoding='utf-8-sig');
\* opening the output file may fail (OSError), and then nothing is written.
SaveCsv ==
    /\ pc = "save"
    /\ \/ /\ disk' = [disk EXCEPT ![get_output_path(file_path)] = to_csv(result_df)]
          /\ nwrites' = nwrites + 1
          /\ Step("return", "save")
          /\ UNCHANGED locals
       \/ Raise("OSError")

\* return result_df
Return ==
    /\ pc = "return"
    /\ ret' = DataFrame(result_df)
    /\ pc' = "done"
    /\ UNCHANGED <<disk, file_path, locals, exc, nwrites, stages, prev>>

\* The bug of a handler that logs and raises again.
ExceptAndRaise ==
    /\ pc = "except"
    /\ ret' = [kind |-> "raised", rows |-> <<>>]
    /\ pc' = "done"
    /\ UNCHANGED <<disk, file_path, locals, exc, nwrites, stages, prev>>

\* except Exception as e: logger.error(...); return None
Except ==
    /\ pc = "except"
    /\ ret' = None
    /\ pc' = "done"
    /\ UNCHANGED <<disk, file_path, locals, exc, nwrites, stages, prev>>

\* A second invocation, on the file the first one wrote.
Rerun ==
    /\ pc = "done"
    /\ file_path = 0
    /\ ret.kind = "DataFrame"
    /\ file_path' = get_output_path(file_path)
    /\ prev' = ret
    /\ pc' = "read_csv"
    /\ df' = <<>>
    /\ full_date_range' = <<>>
    /\ missing_dates' = <<>>
    /\ result_df' = <<>>
    /\ exc' = ""
    /\ ret' = Pending
    /\ nwrites' = 0
    /\ stages' = <<>>
    /\ UNCHANGED disk

Next ==
    \/ ReadCsv
    \/ SelectStage
    \/ CleanBalance
    \/ ParseDateTime
    \/ DropDuplicates
    \/ SortValues
    \/ BuildGrid
    \/ FindMissing
    \/ ConcatFill
    \/ FinalDedup
    \/ FormatDateTime
    \/ SaveCsv
    \/ Return
    \/ Except
    \/ Rerun

Spec == Init /\ [][Next]_vars

\* The transformation stages of one call composed: what lines 89-133 make
\* of the rows of a file that has both columns.
process_rows(rows) ==
    LET parsed == [i \in 1..Len(rows) |->
                      [DateTime |-> to_datetime(rows[i][1]), Balance |-> ToFloat(rows[i][2])]]
        sorted == sort_values(dropna(drop_duplicates(parsed)))
        grid == date_range(ColMin(sorted), ColMax(sorted))
        missing == difference(grid, sorted)
    IN  strftime(drop_duplicates(ffill(sort_values(sorted \o missing_data(missing)))))

\* ----------------------------------------------------- reading the state
\* The file the running call was given, and its data rows when it has the
\* two columns in the order <<time, balance>>.
InputFile == disk[file_path]
InputRows == IF InputFile.exists /\ HasColumns(InputFile) THEN InputFile.rows ELSE <<>>

RowTime(r) == IF r[1].kind = "time" THEN r[1].val ELSE NaT
RowBalance(r) == IF r[2].kind \in {"num", "spaced"} THEN r[2].val ELSE NaN

\* The observed instants, and the first input row of an observed instant.
ObservedTimes == {RowTime(InputRows[i]) : i \in 1..Len(InputRows)} \ {NaT}
RowsAt(t) == {i \in 1..Len(InputRows) : RowTime(InputRows[i]) = t}
FirstRowAt(t) == InputRows[SetMin(RowsAt(t))]

\* The grid of the spec: min + 15min*k up to max.
SpecGrid ==
    IF ObservedTimes = {} THEN {}
    ELSE LET lo == SetMin(ObservedTimes)
             hi == SetMax(ObservedTimes)
         IN  {lo + 15 * k : k \in 0..((hi - lo) \div 15)}

\* Balance of the latest observed record before t, and of the latest one
\* that has a known balance.
BalanceOfLatestBefore(t) ==
    LET E == {u \in ObservedTimes : u < t}
    IN  IF E = {} THEN NaN ELSE RowBalance(FirstRowAt(SetMax(E)))
BalanceOfLatestKnownBefore(t) ==
    LET K == {u \in ObservedTimes : u < t /\ RowBalance(FirstRowAt(u)) # NaN}
    IN  IF K = {} THEN NaN ELSE RowBalance(FirstRowAt(SetMax(K)))

Returned == pc = "done" /\ ret.kind = "DataFrame"
Failed == pc = "done" /\ ret.kind = "None"
Out == ret.rows
OutTime(i) == Out[i].DateTime.val
OutTimes == {OutTime(i) : i \in 1..Len(Out)}
OutAt(t) == {i \in 1..Len(Out) : OutTime(i) = t}

\* ------------------------------------------------------------------ C1
\* C1: whenever process_csv returns a result, its timestamps are exactly the
\* grid min + 15min*k <= max of the observed instants, each grid instant
\* once and no record off the grid.
C1_OutputIsExactlyTheGrid ==
    Returned => /\ OutTimes = SpecGrid
                /\ Len(Out) = Cardinality(SpecGrid)

\* ------------------------------------------------------------------ C2
\* C2: whenever process_csv returns a result, every record of it has a
\* known balance; a leading record without one makes the run fail instead.
C2_BalanceNeverAbsent ==
    Returned => \A i \in 1..Len(Out) : Out[i].Balance # NaN

\* ------------------------------------------------------------------ C3
\* C3 as stated: a synthesized record (a grid instant that was not observed)
\* carries the balance of the observed record with the greatest earlier
\* timestamp, and an observed record with a known balance keeps it.
C3_FillFromLatestObserved ==
    Returned =>
        /\ \A i \in 1..Len(Out) :
              OutTime(i) \notin ObservedTimes
                  => Out[i].Balance = BalanceOfLatestBefore(OutTime(i))
        /\ \A t \in ObservedTimes :
              RowBalance(FirstRowAt(t)) # NaN
                  => \A i \in OutAt(t) : Out[i].Balance = RowBalance(FirstRowAt(t))

\* C3 amended: a synthesized record carries the balance of the latest
\* earlier observed record that has a known balance (absent when there is
\* none), and an observed record with a known balance keeps it.
C3_FillFromLatestKnown ==
    Returned =>
        /\ \A i \in 1..Len(Out) :
              OutTime(i) \notin ObservedTimes
                  => Out[i].Balance = BalanceOfLatestKnownBefore(OutTime(i))
        /\ \A t \in ObservedTimes :
              RowBalance(FirstRowAt(t)) # NaN
                  => \A i \in OutAt(t) : Out[i].Balance = RowBalance(FirstRowAt(t))

\* A result with a synthesized record whose nearest earlier observed record
\* has no balance and that is filled from a still earlier one.
C3_Witness ==
    /\ Returned
    /\ \E i \in 1..Len(Out) :
          /\ OutTime(i) \notin ObservedTimes
          /\ BalanceOfLatestBefore(OutTime(i)) = NaN
          /\ Out[i].Balance # NaN

\* ------------------------------------------------------------------ C4
\* C4 as stated: a timestamp shared by several input rows has exactly one
\* output record, with the balance of the first of those rows; and no
\* placeholder is made for an observed instant.
C4_FirstRowBalance ==
    /\ Returned =>
          \A t \in ObservedTimes :
              Cardinality(RowsAt(t)) > 1
                  => /\ Cardinality(OutAt(t)) = 1
                     /\ \A i \in OutAt(t) : Out[i].Balance = RowBalance(FirstRowAt(t))
    /\ Range(missing_dates) \cap ObservedTimes = {}

\* C4 amended: a timestamp shared by several input rows has exactly one
\* output record; its balance is that of the first of those rows when that
\* row has one, and otherwise the forward-filled balance (never that of a
\* later duplicate); and no placeholder is made for an observed instant.
C4_FirstRowKept ==
    /\ Returned =>
          \A t \in ObservedTimes :
              Cardinality(RowsAt(t)) > 1
                  => /\ Cardinality(OutAt(t)) = 1
                     /\ \A i \in OutAt(t) :
                           Out[i].Balance =
                               IF RowBalance(FirstRowAt(t)) # NaN
                               THEN RowBalance(FirstRowAt(t))
                               ELSE BalanceOfLatestKnownBefore(t)
    /\ Range(missing_dates) \cap ObservedTimes = {}

\* A result for an input where a timestamp occurs three times, first with a
\* known balance and later with another one.
C4_Witness ==
    /\ Returned
    /\ \E t \in ObservedTimes :
          /\ Cardinality(RowsAt(t)) = 3
          /\ RowBalance(FirstRowAt(t)) # NaN
          /\ \E j \in RowsAt(t) :
                RowBalance(InputRows[j]) \notin {NaN, RowBalance(FirstRowAt(t))}

\* ------------------------------------------------------------------ C5
\* C5: in every result the timestamps strictly increase from one record to
\* the next, whatever the order of the input rows.
C5_StrictlyIncreasing ==
    Returned => \A i \in 1..(Len(Out) - 1) : OutTime(i) < OutTime(i + 1)

\* A result of several records for an input whose rows are out of order.
C5_Witness ==
    /\ Returned
    /\ Len(Out) >= 3
    /\ \E i, j \in 1..Len(InputRows) :
          i < j /\ RowTime(InputRows[i]) > RowTime(InputRows[j]) /\ RowTime(InputRows[j]) # NaT

\* ------------------------------------------------------------------ C6
\* is_summary_row: pd.isna(row['時間']) or 'end of test' in str(row['時間'])
is_summary_row(r) == r[1].kind \in {"nan", "end of test"}
\* extract_time_balance: df[~df.apply(is_summary_row, axis=1)]
extract_time_balance(rows) == Pick(rows, {i \in 1..Len(rows) : ~is_summary_row(rows[i])}, 1)

IsDataRow(r) == r[1].kind = "time" /\ r[2].kind \in {"num", "spaced", "nan"}
WithoutSummaryRows == extract_time_balance(InputRows)

\* C6: when the input holds summary rows (timestamp empty or containing the
\* sentinel) and its other rows are data rows, the run succeeds and returns
\* what those other rows alone produce.
C6_SummaryRowsExcluded ==
    ( /\ pc = "done"
      /\ \E i \in 1..Len(InputRows) : is_summary_row(InputRows[i])
      /\ WithoutSummaryRows # <<>>
      /\ \A i \in 1..Len(WithoutSummaryRows) : IsDataRow(WithoutSummaryRows[i]) )
    => ret = DataFrame(process_rows(WithoutSummaryRows))

\* ------------------------------------------------------------------ C7
IsBadRow(r) == r[1].kind = "word" \/ r[2].kind = "word"
WithoutBadRows == Pick(InputRows, {i \in 1..Len(InputRows) : ~IsBadRow(InputRows[i])}, 1)

\* C7: when the input holds rows whose timestamp does not match the pattern
\* or whose balance is not numeric, and its other rows are data rows, the
\* run succeeds and returns what those other rows alone produce.
C7_BadRowsDropped ==
    ( /\ pc = "done"
      /\ \E i \in 1..Len(InputRows) : IsBadRow(InputRows[i])
      /\ WithoutBadRows # <<>>
      /\ \A i \in 1..Len(WithoutBadRows) : IsDataRow(WithoutBadRows[i]) )
    => ret = DataFrame(process_rows(WithoutBadRows))

\* ------------------------------------------------------------------ C8
\* C8: the call on the file a successful call wrote succeeds and returns the
\* same table.
C8_Idempotent ==
    (pc = "done" /\ file_path = get_output_path(0)) => ret = prev

\* ------------------------------------------------------------------ C9
\* The positions of a running call; each has a step that is always possible.
Positions ==
    {"read_csv", "select", "balance", "datetime", "dedup", "sort", "grid", "missing",
     "fill", "final_dedup", "format", "save", "return", "except"}

\* C9: a call never lets an exception escape: while it runs it is at a
\* position it can leave, a raised exception leads to the handler only, and
\* when it is over it has returned a table or None (None after an exception).
C9_NeverPropagates ==
    /\ pc = "done" => ret.kind \in {"DataFrame", "None"}
    /\ pc # "done" => ret = Pending /\ pc \in Positions
    /\ pc = "except" => ENABLED Except
    /\ exc # "" => pc \in {"except", "done"} /\ (pc = "done" => ret = None)

\* A call that returned None for a file whose rows are all dropped (empty
\* after filtering).
C9_Witness ==
    /\ Failed
    /\ exc = "ValueError"
    /\ InputRows # <<>>
    /\ \A i \in 1..Len(InputRows) : InputRows[i][1] = EmptyText /\ IsDataRow(<<TimeText(0), InputRows[i][2]>>)

\* ----------------------------------------------------------------- C10
AllStages ==
    <<"load", "select", "balance", "datetime", "dedup", "sort", "grid", "missing",
      "fill", "final_dedup", "format">>
OutputFile == disk[get_output_path(file_path)]

\* C10: a call writes the output file at most once and only once every stage
\* from load to format is complete; a call that failed in one of those
\* stages has written nothing; a call that wrote returns the table written.
C10_NoPartialPersistence ==
    /\ nwrites <= 1
    /\ OutputFile.exists <=> nwrites = 1
    /\ nwrites = 1 => Len(stages) > Len(AllStages)
                      /\ SubSeq(stages, 1, Len(AllStages)) = AllStages
    /\ Failed => nwrites = 0
    /\ (pc = "done" /\ nwrites = 1) => Returned /\ OutputFile = to_csv(ret.rows)

\* A call that wrote a table of several records and returned it.
C10_Witness ==
    /\ Returned
    /\ nwrites = 1
    /\ Len(Out) >= 3
    /\ OutputFile.rows # <<>>

====
